---- MODULE Spec2Model ----
(***************************************************************************)
(* pyGadget: the particle-to-grid projection of visualize.py.              *)
(*                                                                         *)
(* Numbers.  Positions, smoothing lengths, scalars and the window width    *)
(* are integers.  Every comparison the code makes between real numbers is  *)
(* made here on exact fractions, cross-multiplied: a cell centre           *)
(* -width/2 + (i+0.5)*width/pps is carried as its product with 2*pps.      *)
(* sqrt() is the one rounding operation: r is carried in units of          *)
(* 1/KernelDen, rounded down.  The accumulators then hold the code's       *)
(* sums in units of 1/KernelDen^3.                                         *)
(***************************************************************************)
EXTENDS Integers, Sequences, FiniteSets, TLC

\* ---------------------------------------------------------------- bounds
MaxPart == 2          \* particles handed to scalar_map
MaxThreads == 2       \* OpenMP team size
MaxPps == 2           \* pixels per side
KernelHalf == 2       \* r = 0.5 in the fixed-point unit of r
KernelDen == 2 * KernelHalf

\* the inputs scalar_map is run on
WidthSet == {4}
XSet == {-1, 0, 1, 3}
YSet == {0, 1}
ScalarSet == {1, 2}
HsmlSet == {1, 2}
Particle == [x : XSet, y : YSet, s : ScalarSet, h : HsmlSet]
\* The arrays are enumerated up to a permutation of the particles.
Rank(p) == ((p.x * 10 + p.y) * 10 + p.s) * 10 + p.h

VARIABLES
  width,      \* scalar_map: box width
  pps,        \* scalar_map: pixels per side
  parts,      \* scalar_map: the particle arrays x, y, scalar_field, hsml
  nthreads,   \* size of the OpenMP team running the parallel for
  owner,      \* owner[n]: the thread that runs iteration n of the for loop
  zi,         \* shared accumulator zi(i,j)
  nzi,        \* shared accumulator nzi(i,j)
  th,         \* per thread: loop position and the register of a pending +=
  mpc,        \* "loop" while weave.inline runs, "returned" after line 106
  out,        \* the grid scalar_map returns
  targs,      \* trim_view / build_grid: the arguments of the call
  tpc,        \* the statement the caller of trim_view is at
  tret,       \* what trim_view returned
  grid,       \* what build_grid returned
  vargs,      \* set_view: the arguments of the call
  vpc,        \* "set_view" before the call, then "returned" or "raised"
  vret,       \* what set_view returned or raised
  pargs,      \* project / density_projection: the arguments of the call
  snap,       \* the snapshot the call is given: its arrays and its sinks
  ploc,       \* the local names of the running call
  ppc,        \* the statement the call is at, "returned" or "raised"
  perr,       \* the exception the call ended in
  cargs,      \* center_box / find_center: the arguments of the call
  cpos,       \* the caller's array pos
  dens_limit, \* find_center: the density threshold
  cpc,        \* the statement center_box / find_center is at
  kargs,      \* the kernel: the squared radii r2 it is evaluated at
  kret,       \* the kernel values computed
  kpc,        \* "r2" before the evaluation, "done" after
  names,      \* multitask: the snapshot files still to be queued
  file_queue, \* multitask: Queue.Queue()
  data_queue, \* multitask: Queue.Queue(3)
  lpc,        \* Loader.run: the statement the thread is at
  lreg,       \* Loader.run: args, then the snapshot loaded
  qpc,        \* multitask: the statement the main thread is at
  plotted     \* multitask: the snapshots handed to plot_function

mapVars == <<width, pps, parts, nthreads, owner, zi, nzi, th, mpc, out>>
trimVars == <<targs, tpc, tret, grid>>
viewVars == <<vargs, vpc, vret>>
projVars == <<pargs, snap, ploc, ppc, perr>>
centVars == <<cargs, cpos, dens_limit, cpc>>
kernVars == <<kargs, kret, kpc>>
taskVars == <<names, file_queue, data_queue, lpc, lreg, qpc, plotted>>
restVars == <<projVars, centVars, kernVars, taskVars>>
vars == <<mapVars, trimVars, viewVars, restVars>>

\* ------------------------------------------------------------ arithmetic
Abs(a) == IF a < 0 THEN -a ELSE a

\* The C cast int(a/b) of a double, b > 0: truncation toward zero.
IntCast(a, b) == IF a >= 0 THEN a \div b ELSE -((-a) \div b)

Cells(n) == (0 .. n-1) \X (0 .. n-1)

\* ------------------------------------------------- scalar_map, per particle
\* int((x(n) -/+ hsml(n) + width/2.0) / width*pps)
i_min(p, w, n) == IntCast((2 * (p.x - p.h) + w) * n, 2 * w)
\* (a variant: the upper bound of the scan one cell short)
i_maxBelow(p, w, n) == IntCast((2 * (p.x + p.h) + w) * n, 2 * w) - 1
i_max(p, w, n) == IntCast((2 * (p.x + p.h) + w) * n, 2 * w)
j_min(p, w, n) == IntCast((2 * (p.y - p.h) + w) * n, 2 * w)
j_max(p, w, n) == IntCast((2 * (p.y + p.h) + w) * n, 2 * w)

\* center_i = -width/2.0 + (i+0.5) * width / pps, times 2*pps
Center2p(i, w, n) == w * (2 * i + 1 - n)

\* r2 = ((x - center_i)^2 + (y - center_j)^2) / hsml / hsml as R2Num / R2Den
R2Num(p, i, j, w, n) ==
  (2 * n * p.x - Center2p(i, w, n)) * (2 * n * p.x - Center2p(i, w, n))
  + (2 * n * p.y - Center2p(j, w, n)) * (2 * n * p.y - Center2p(j, w, n))
R2Den(p, n) == (2 * n * p.h) * (2 * n * p.h)

\* if(r2 <= 1.0)
InKernel(p, i, j, w, n) == R2Num(p, i, j, w, n) <= R2Den(p, n)

\* r = sqrt(r2), in units of 1/KernelDen, rounded down (0 <= r2 <= 1)
SqrtR2(num, den) ==
  CHOOSE k \in 0 .. KernelDen :
    /\ k * k * den <= num * KernelDen * KernelDen
    /\ (k + 1) * (k + 1) * den > num * KernelDen * KernelDen

\* W_x of lines 63-66, in units of 1/KernelDen^3
BranchNear(r) ==
  KernelDen * KernelDen * KernelDen - 6 * r * r * KernelDen + 6 * r * r * r
\* (a variant: the square where the code has the cube)
BranchFarSquared(r) == 2 * (KernelDen - r) * (KernelDen - r) * KernelDen
BranchFar(r) == 2 * (KernelDen - r) * (KernelDen - r) * (KernelDen - r)
W_x(r) == IF 2 * r <= KernelDen THEN BranchNear(r) ELSE BranchFar(r)

KernelAt(p, i, j, w, n) == W_x(SqrtR2(R2Num(p, i, j, w, n), R2Den(p, n)))

\* weight = scalar_field(n)*scalar_field(n); the two addends of lines 67-68
AddZi(p, c, w, n) == p.s * p.s * p.s * KernelAt(p, c[1], c[2], w, n)
AddNzi(p, c, w, n) == p.s * p.s * KernelAt(p, c[1], c[2], w, n)

\* The inner do-while over j (lines 50-82), from j on: the cells deposited to.
RECURSIVE InnerLoop(_, _, _, _, _)
InnerLoop(p, i, j, w, n) ==
  LET inside == j >= j_min(p, w, n) /\ j <= j_max(p, w, n)
      flag_j == IF inside THEN 1 ELSE IF j > j_max(p, w, n) THEN 2 ELSE 0
      hit    == IF inside /\ InKernel(p, i, j, w, n) THEN << <<i, j>> >> ELSE << >>
  IN  IF flag_j \in {0, 1} /\ j + 1 < n
        THEN hit \o InnerLoop(p, i, j + 1, w, n)
        ELSE hit

\* (a variant: the scan continued while i <= pps)
RECURSIVE OuterLoopInclusive(_, _, _, _)
OuterLoopInclusive(p, i, w, n) ==
  LET inside == i >= i_min(p, w, n) /\ i <= i_max(p, w, n)
      flag_i == IF inside THEN 1 ELSE IF i > i_max(p, w, n) THEN 2 ELSE 0
      hits   == IF inside THEN InnerLoop(p, i, 0, w, n) ELSE << >>
  IN  IF flag_i \in {0, 1} /\ i + 1 <= n
        THEN hits \o OuterLoopInclusive(p, i + 1, w, n)
        ELSE hits

\* The outer do-while over i (lines 44-95), from i on.
RECURSIVE OuterLoop(_, _, _, _)
OuterLoop(p, i, w, n) ==
  LET inside == i >= i_min(p, w, n) /\ i <= i_max(p, w, n)
      flag_i == IF inside THEN 1 ELSE IF i > i_max(p, w, n) THEN 2 ELSE 0
      hits   == IF inside THEN InnerLoop(p, i, 0, w, n) ELSE << >>
  IN  IF flag_i \in {0, 1} /\ i + 1 < n
        THEN hits \o OuterLoop(p, i + 1, w, n)
        ELSE hits

\* The passes the inner do-while makes from j on (the body runs, then the
\* test of line 82), and the passes of the outer one from i on (line 94).
RECURSIVE InnerPasses(_, _, _, _)
InnerPasses(p, j, w, n) ==
  LET inside == j >= j_min(p, w, n) /\ j <= j_max(p, w, n)
      flag_j == IF inside THEN 1 ELSE IF j > j_max(p, w, n) THEN 2 ELSE 0
  IN  1 + (IF flag_j \in {0, 1} /\ j + 1 < n THEN InnerPasses(p, j + 1, w, n) ELSE 0)

RECURSIVE OuterPasses(_, _, _, _)
OuterPasses(p, i, w, n) ==
  LET inside == i >= i_min(p, w, n) /\ i <= i_max(p, w, n)
      flag_i == IF inside THEN 1 ELSE IF i > i_max(p, w, n) THEN 2 ELSE 0
  IN  1 + (IF flag_i \in {0, 1} /\ i + 1 < n THEN OuterPasses(p, i + 1, w, n) ELSE 0)

\* The cells one iteration of the for loop adds to, in the order it does.
Deposits(p, w, n) == OuterLoop(p, 0, w, n)

\* ------------------------------------------------------- lines 105-106
\* A returned cell is a fraction num/den; den = 0 is numpy's nan (0/0) or inf.
Quot(a, b) == [num |-> a, den |-> b]
\* (a variant: zi/nzi taken for every cell, the guard nzi > 0 left out)
WhereAllDivided(a, b) == Quot(a, b)
\* numpy.where(nzi > 0, zi/nzi, zi), one cell
Where(a, b) == IF b > 0 THEN Quot(a, b) ELSE Quot(a, 1)

Normalize(z, nz, n) == [c \in Cells(n) |-> Where(z[c], nz[c])]

ZeroGrid(n) == [c \in Cells(n) |-> 0]

\* One particle's += on every cell of cs, in order, on the pair acc of grids.
RECURSIVE AddAll(_, _, _, _, _)
AddAll(p, cs, w, n, acc) ==
  IF cs = << >> THEN acc
  ELSE AddAll(p, Tail(cs), w, n,
         [zi  |-> [acc.zi EXCEPT ![Head(cs)] = @ + AddZi(p, Head(cs), w, n)],
          nzi |-> [acc.nzi EXCEPT ![Head(cs)] = @ + AddNzi(p, Head(cs), w, n)]])

\* -------------------------------------- scalar_map run by one thread only
RECURSIVE SerialLoop(_, _, _, _, _)
SerialLoop(ps, k, w, n, acc) ==
  IF k > Len(ps) THEN acc
  ELSE SerialLoop(ps, k + 1, w, n, AddAll(ps[k], Deposits(ps[k], w, n), w, n, acc))

SerialMap(ps, w, n) ==
  LET a == SerialLoop(ps, 1, w, n, [zi |-> ZeroGrid(n), nzi |-> ZeroGrid(n)])
  IN  Normalize(a.zi, a.nzi, n)

\* ------------------------------------------------------- py_scalar_map
\* i >= i_min[n] and i <= i_max[n], the bounds being the untruncated reals
PyInRange(i, c, h, w, n) ==
  /\ i * 2 * w >= (2 * (c - h) + w) * n
  /\ i * 2 * w <= (2 * (c + h) + w) * n

\* for i in xrange(pps): ... for j in xrange(pps): ..., the cells added to
PyDeposits(p, w, n) ==
  LET Row(i) == SelectSeq([j1 \in 1 .. n |-> <<i, j1 - 1>>],
                          LAMBDA c : /\ PyInRange(c[2], p.y, p.h, w, n)
                                     /\ InKernel(p, c[1], c[2], w, n))
      RECURSIVE Rows(_)
      Rows(i) == IF i >= n THEN << >>
                 ELSE (IF PyInRange(i, p.x, p.h, w, n) THEN Row(i) ELSE << >>)
                      \o Rows(i + 1)
  IN  Rows(0)

RECURSIVE PyLoop(_, _, _, _, _)
PyLoop(ps, k, w, n, acc) ==
  IF k > Len(ps) THEN acc
  ELSE PyLoop(ps, k + 1, w, n, AddAll(ps[k], PyDeposits(ps[k], w, n), w, n, acc))

py_scalar_map(ps, w, n) ==
  LET a == PyLoop(ps, 1, w, n, [zi |-> ZeroGrid(n), nzi |-> ZeroGrid(n)])
  IN  Normalize(a.zi, a.nzi, n)

\* ------------------------------------------------ the parallel for loop
Threads == 1 .. nthreads

\* The next iteration thread t runs after iteration n (0: none yet); 0 if none.
NextOwned(t, n) ==
  IF \E m \in (n + 1) .. Len(parts) : owner[m] = t
    THEN CHOOSE m \in (n + 1) .. Len(parts) :
           owner[m] = t /\ \A q \in (n + 1) .. (m - 1) : owner[q] # t
    ELSE 0

Idle == [pc |-> "for", n |-> 0, cells |-> << >>, reg |-> 0]

\* Clamp of project / density_projection: hsml >= width/pps/2
Clamped(p, w, n) == 2 * n * p.h >= w

InitMap ==
  /\ width \in WidthSet
  /\ pps \in 1 .. MaxPps
  /\ \E len \in 0 .. MaxPart : parts \in [1 .. len -> Particle]
  /\ \A k \in 1 .. Len(parts) : Clamped(parts[k], width, pps)
  /\ \A k \in 1 .. Len(parts) - 1 : Rank(parts[k]) <= Rank(parts[k + 1])
  /\ nthreads \in 1 .. MaxThreads
  /\ owner \in [1 .. Len(parts) -> 1 .. nthreads]
  \* thread numbers are interchangeable: the first iteration is thread 1's
  /\ Len(parts) > 0 => owner[1] = 1
  /\ zi = ZeroGrid(pps)
  /\ nzi = ZeroGrid(pps)
  /\ th = [t \in 1 .. nthreads |-> Idle]
  /\ mpc = "loop"
  /\ out = << >>

\* for(n ...): the thread takes its next iteration and scans the grid (35-96)
StartIteration(t) ==
  /\ mpc = "loop"
  /\ th[t].pc = "for"
  /\ LET m == NextOwned(t, th[t].n)
     IN  IF m = 0
           THEN th' = [th EXCEPT ![t].pc = "end"]
           ELSE LET cs == Deposits(parts[m], width, pps)
                IN  th' = [th EXCEPT ![t] =
                        [pc |-> IF cs = << >> THEN "for" ELSE "load_zi",
                         n |-> m, cells |-> cs, reg |-> 0]]
  /\ UNCHANGED <<width, pps, parts, nthreads, owner, zi, nzi, mpc, out, trimVars, viewVars, restVars>>

\* zi(i,j) += ... : the load
LoadZi(t) ==
  /\ th[t].pc = "load_zi"
  /\ th' = [th EXCEPT ![t].pc = "store_zi", ![t].reg = zi[Head(th[t].cells)]]
  /\ UNCHANGED <<width, pps, parts, nthreads, owner, zi, nzi, mpc, out, trimVars, viewVars, restVars>>

\* zi(i,j) += ... : the store
StoreZi(t) ==
  /\ th[t].pc = "store_zi"
  /\ zi' = [zi EXCEPT ![Head(th[t].cells)] =
              th[t].reg + AddZi(parts[th[t].n], Head(th[t].cells), width, pps)]
  /\ th' = [th EXCEPT ![t].pc = "load_nzi", ![t].reg = 0]
  /\ UNCHANGED <<width, pps, parts, nthreads, owner, nzi, mpc, out, trimVars, viewVars, restVars>>

\* nzi(i,j) += ... : the load
LoadNzi(t) ==
  /\ th[t].pc = "load_nzi"
  /\ th' = [th EXCEPT ![t].pc = "store_nzi", ![t].reg = nzi[Head(th[t].cells)]]
  /\ UNCHANGED <<width, pps, parts, nthreads, owner, zi, nzi, mpc, out, trimVars, viewVars, restVars>>

\* nzi(i,j) += ... : the store, and on to the next cell of the scan
StoreNzi(t) ==
  /\ th[t].pc = "store_nzi"
  /\ nzi' = [nzi EXCEPT ![Head(th[t].cells)] =
               th[t].reg + AddNzi(parts[th[t].n], Head(th[t].cells), width, pps)]
  /\ th' = [th EXCEPT ![t].pc = IF Tail(th[t].cells) = << >> THEN "for" ELSE "load_zi",
                      ![t].cells = Tail(th[t].cells),
                      ![t].reg = 0]
  /\ UNCHANGED <<width, pps, parts, nthreads, owner, zi, mpc, out, trimVars, viewVars, restVars>>

\* The team has joined; zi = numpy.where(nzi > 0, zi/nzi, zi); return zi
Return ==
  /\ mpc = "loop"
  /\ \A t \in Threads : th[t].pc = "end"
  /\ out' = Normalize(zi, nzi, pps)
  /\ mpc' = "returned"
  /\ UNCHANGED <<width, pps, parts, nthreads, owner, zi, nzi, th, trimVars, viewVars, restVars>>

NextMap ==
  \/ \E t \in Threads : StartIteration(t)
  \/ \E t \in Threads : LoadZi(t)
  \/ \E t \in Threads : StoreZi(t)
  \/ \E t \in Threads : LoadNzi(t)
  \/ \E t \in Threads : StoreNzi(t)
  \/ Return

\* ================================================ trim_view, build_grid
MaxTrim == 2          \* particles handed to trim_view
MaxArrs == 2          \* auxiliary arrays (*args) handed to trim_view

TrimWidthSet == {2, 3}
TrimPoint == {-2, 0, 1} \X {0, 2} \X {0, 1}
\* depth: None, or the number num/den
None == [none |-> TRUE, num |-> 0, den |-> 1]
Num(a, b) == [none |-> FALSE, num |-> a, den |-> b]
DepthSet == {None, Num(0, 1), Num(1, 2), Num(1, 1), Num(2, 1)}

\* arr[slice_]: numpy indexing with an index array
Take(arr, slice_) == [k \in 1 .. Len(slice_) |-> arr[slice_[k]]]

\* (a variant: <= where the code has <)
WhereAbsLessEq(arr, num, den, k) ==
  SelectSeq([m \in 1 .. Len(arr) |-> m], LAMBDA m : den * Abs(arr[m]) <= num)

\* numpy.where(numpy.abs(arr) < num/den)[0]: the indices, ascending
RECURSIVE WhereAbsLess(_, _, _, _)
WhereAbsLess(arr, num, den, k) ==
  IF k > Len(arr) THEN << >>
  ELSE (IF den * Abs(arr[k]) < num THEN <<k>> ELSE << >>)
       \o WhereAbsLess(arr, num, den, k + 1)

\* (a variant: the loop over arrs left out, the auxiliary arrays uncut)
SliceAllButArrs(a, slice_) ==
  [x |-> Take(a.x, slice_), y |-> Take(a.y, slice_), z |-> Take(a.z, slice_),
   arrs |-> a.arrs]
\* The four statements x = x[slice_] ... arrs[i] = arr[slice_]
SliceAll(a, slice_) ==
  [x |-> Take(a.x, slice_), y |-> Take(a.y, slice_), z |-> Take(a.z, slice_),
   arrs |-> [i \in 1 .. Len(a.arrs) |-> Take(a.arrs[i], slice_)]]

\* if depth:
Truthy(depth) == ~depth.none /\ depth.num # 0

\* trim_view(width, x, y, z, *args, depth=depth); width is a float in every
\* caller, so width/2 and depth/2 are true divisions.
trim_view(w, a, depth) ==
  LET s1 == IF Truthy(depth)
              \* depth *= width; numpy.where(numpy.abs(z) < depth/2)[0]
              THEN SliceAll(a, WhereAbsLess(a.z, depth.num * w, 2 * depth.den, 1))
              ELSE a
      s2 == SliceAll(s1, WhereAbsLess(s1.x, w, 2, 1))
      s3 == SliceAll(s2, WhereAbsLess(s2.y, w, 2, 1))
  IN  \* x.max() of line 203 on an array of size 0
      IF s3.x = << >> THEN [status |-> "ValueError", val |-> << >>]
      ELSE [status |-> "ok", val |-> s3]

\* numpy.arange(start, stop, step), every number times 2*pps: -width/2 is
\* -width*n, width/2 is width*n, xres = width/pps is 2*width
arange(start, stop, step) ==
  [k \in 1 .. ((stop - start + step - 1) \div step) |-> start + (k - 1) * step]

\* build_grid(width, pps): numpy.meshgrid(xvals, yvals) is the pair X, Y with
\* X[i][j] = xvals[j] and Y[i][j] = yvals[i]; indices from 0.
build_grid(w, n) ==
  LET xvals == arange(-w * n, w * n, 2 * w)
      yvals == arange(-w * n, w * n, 2 * w)
  IN  [xi |-> [c \in (0 .. Len(yvals) - 1) \X (0 .. Len(xvals) - 1) |-> xvals[c[2] + 1]],
       yi |-> [c \in (0 .. Len(yvals) - 1) \X (0 .. Len(xvals) - 1) |-> yvals[c[1] + 1]]]

\* the auxiliary arrays: element k of array i is tagged 10*i + k
TagArrays(na, len) == [i \in 1 .. na |-> [k \in 1 .. len |-> 10 * i + k]]

InitTrim ==
  /\ \E len \in 0 .. MaxTrim, na \in 0 .. MaxArrs, w \in TrimWidthSet,
        d \in DepthSet, n \in 1 .. MaxPps :
       \E pts \in [1 .. len -> TrimPoint] :
         targs = [width |-> w, depth |-> d, pps |-> n,
                  x |-> [k \in 1 .. len |-> pts[k][1]],
                  y |-> [k \in 1 .. len |-> pts[k][2]],
                  z |-> [k \in 1 .. len |-> pts[k][3]],
                  arrs |-> TagArrays(na, len)]
  /\ tpc = "trim_view"
  /\ tret = [status |-> "none", val |-> << >>]
  /\ grid = << >>

\* x,y,z,... = trim_view(width, x,y,z,...,depth=depth)      (229 / 266)
TrimView ==
  /\ tpc = "trim_view"
  /\ tret' = trim_view(targs.width, targs, targs.depth)
  /\ tpc' = IF tret'.status = "ok" THEN "build_grid" ELSE "raised"
  /\ UNCHANGED <<targs, grid, mapVars, viewVars, restVars>>

\* xi,yi = build_grid(width,pps)                              (231 / 272)
BuildGrid ==
  /\ tpc = "build_grid"
  /\ grid' = build_grid(targs.width, targs.pps)
  /\ tpc' = "scalar_map"
  /\ UNCHANGED <<targs, tret, mapVars, viewVars, restVars>>

NextTrim == TrimView \/ BuildGrid

\* ================================================================ set_view
MaxPts == 2           \* rows of pos
MaxAxes == 2          \* entries of a dictionary given as view

PointSet == {<<1, 2, 3>>, <<2, 0, -1>>, <<0, 0, 0>>}
AxisNames == {"x", "y", "z", "w"}
\* angles are whole quarter turns: 1 is numpy.pi/2
AngleSet == {1, 3}
StringViews == {"xy", "xz", "yz", "zy"}

cos(q) == CASE q % 4 = 0 -> 1 [] q % 4 = 1 -> 0 [] q % 4 = 2 -> -1 [] OTHER -> 0
sin(q) == CASE q % 4 = 0 -> 0 [] q % 4 = 1 -> 1 [] q % 4 = 2 -> 0 [] OTHER -> -1

\* rotation_matrix binds rot for these axes only; for any other axis
\* numpy.asarray(rot) raises UnboundLocalError
RotBound(axis) == axis \in {"x", "y", "z"}

rotation_matrix(axis, angle) ==
  CASE axis = "x" -> << <<1, 0, 0>>,
                        <<0, cos(angle), -sin(angle)>>,
                        <<0, sin(angle), cos(angle)>> >>
    [] axis = "y" -> << <<cos(angle), 0, sin(angle)>>,
                        <<0, 1, 0>>,
                        <<-sin(angle), 0, cos(angle)>> >>
    [] axis = "z" -> << <<cos(angle), -sin(angle), 0>>,
                        <<sin(angle), cos(angle), 0>>,
                        <<0, 0, 1>> >>

\* (a variant: the product with the transposed matrix, numpy.dot(rot, p))
dotTransposed(coords, rot) ==
  [n \in 1 .. Len(coords) |->
     [j \in 1 .. 3 |-> coords[n][1] * rot[j][1] + coords[n][2] * rot[j][2]
                       + coords[n][3] * rot[j][3]]]

\* numpy.dot(coords, rot): row n, column j is sum_k coords[n][k] * rot[k][j]
dot(coords, rot) ==
  [n \in 1 .. Len(coords) |->
     [j \in 1 .. 3 |-> coords[n][1] * rot[1][j] + coords[n][2] * rot[2][j]
                       + coords[n][3] * rot[3][j]]]

rotate_view(coords, axis, angle) == dot(coords, rotation_matrix(axis, angle))

\* pos[:,0], pos[:,1], pos[:,2]
Columns(coords) ==
  [status |-> "ok",
   x |-> [n \in 1 .. Len(coords) |-> coords[n][1]],
   y |-> [n \in 1 .. Len(coords) |-> coords[n][2]],
   z |-> [n \in 1 .. Len(coords) |-> coords[n][3]]]
Raise(e) == [status |-> e, x |-> << >>, y |-> << >>, z |-> << >>]

\* for ax in axes: pos = rotate_view(pos, ax, view[ax]); items are the
\* (ax, view[ax]) pairs in the order of axes
RECURSIVE RotateEach(_, _)
RotateEach(coords, items) ==
  IF items = << >> THEN Columns(coords)
  ELSE IF ~RotBound(items[1][1]) THEN Raise("UnboundLocalError")
  ELSE RotateEach(rotate_view(coords, items[1][1], items[1][2]), Tail(items))

\* The orders view.keys() can list the keys of a dict in: any
KeyOrders(n) == {f \in [1 .. n -> 1 .. n] : \A a, b \in 1 .. n : f[a] = f[b] => a = b}

\* A view is a string, None, or a dict written as the sequence of its items.
StrView(nm) == [kind |-> "str", name |-> nm, items |-> << >>]
NoneView == [kind |-> "none", name |-> "", items |-> << >>]
DictView(it) == [kind |-> "dict", name |-> "", items |-> it]

DictItems ==
  UNION {{it \in [1 .. len -> AxisNames \X AngleSet] :
            \A a, b \in 1 .. len : it[a][1] = it[b][1] => a = b} :
         len \in 0 .. MaxAxes}

ViewSet == {StrView(nm) : nm \in StringViews} \cup {NoneView}
             \cup {DictView(it) : it \in DictItems}

\* set_view(pos, dens, view) with view.keys() listing the keys in order ord
set_view(pos, view, ord) ==
  IF view.kind = "str" /\ view.name = "xy" THEN Columns(pos)
  ELSE IF view.kind = "str" /\ view.name = "xz" THEN Columns(rotate_view(pos, "x", -1))
  ELSE IF view.kind = "str" /\ view.name = "yz" THEN Columns(rotate_view(pos, "y", 1))
  ELSE IF view.kind # "dict" THEN Raise("KeyError")       \* no .keys(): AttributeError
  ELSE RotateEach(pos, [k \in 1 .. Len(view.items) |-> view.items[ord[k]]])

InitView ==
  /\ \E len \in 0 .. MaxPts : \E p \in [1 .. len -> PointSet], v \in ViewSet :
       vargs = [pos |-> p, view |-> v]
  /\ vpc = "set_view"
  /\ vret = Raise("none")

\* x,y,z = set_view(pos, scalar, view)                      (224 / 253)
SetView ==
  /\ vpc = "set_view"
  /\ \E ord \in KeyOrders(Len(vargs.view.items)) :
       vret' = set_view(vargs.pos, vargs.view, ord)
  /\ vpc' = IF vret'.status = "ok" THEN "returned" ELSE "raised"
  /\ UNCHANGED <<vargs, mapVars, trimVars, restVars>>

NextView == SetView

\* ===================================== project, density_projection
MaxProj == 2          \* gas particles of the snapshot

ProjPoint == {<<0, 0, 0>>, <<1, 0, 1>>, <<3, 1, 0>>}
ProjWidthSet == {0, 4}
ProjPpsSet == {0, 1, 2}
ProjDepthSet == {None, Num(1, 1)}
ProjViewSet == {StrView("xy"), StrView("yz"), StrView("zy"), DictView(<<<<"z", 1>>>>)}
SmSet == {1, 2}
\* snapshot.sink_ids: an attribute File does not set (Absent), or a list
Absent == [has |-> FALSE, ids |-> << >>]
SinkIds(l) == [has |-> TRUE, ids |-> l]
SinkIdSet == {Absent, SinkIds(<< >>), SinkIds(<<1>>)}

NoLocals ==
  [x |-> << >>, y |-> << >>, z |-> << >>, dens |-> << >>, smL |-> << >>,
   sinkval |-> << >>, mass |-> << >>, hsml |-> << >>,
   xi |-> << >>, yi |-> << >>, zi |-> << >>]

InitProject ==
  /\ \E f \in {"project", "density_projection"}, w \in ProjWidthSet,
        n \in ProjPpsSet, d \in ProjDepthSet, v \in ProjViewSet, m \in SmSet :
       pargs = [fn |-> f, width |-> w, pps |-> n, depth |-> d, view |-> v, sm |-> m]
  /\ \E len \in 1 .. MaxProj, sk \in SinkIdSet :
       \E p \in [1 .. len -> ProjPoint], dn \in [1 .. len -> ScalarSet] :
         snap = [pos |-> p, dens |-> dn,
                 smL |-> [k \in 1 .. len |-> 1],
                 sinkval |-> [k \in 1 .. len |-> IF k \in {sk.ids[q] : q \in 1 .. Len(sk.ids)}
                                                  THEN 1 ELSE 0],
                 mass |-> [k \in 1 .. len |-> k],
                 sink_ids |-> sk, sinks |-> << >>]
  /\ ploc = NoLocals
  /\ ppc = "call"
  /\ perr = "none"

\* scalar, pos, hsml are read from the snapshot (218-220 / 244-251); the
\* getters return the snapshot's own arrays
Load ==
  /\ ppc = "call"
  /\ ploc' = [ploc EXCEPT !.dens = snap.dens, !.smL = snap.smL,
                          !.sinkval = snap.sinkval, !.mass = snap.mass]
  /\ ppc' = IF pargs.fn = "project" THEN "center_box" ELSE "set_view"
  /\ UNCHANGED <<pargs, snap, perr,
               mapVars, trimVars, viewVars, centVars, kernVars, taskVars>>

\* pos = analyze.center_box(pos,density=dens,**kwargs)   (223): the name dens
\* is bound neither in project nor in the module
ProjectCenterBox ==
  /\ ppc = "center_box"
  /\ ppc' = "raised"
  /\ perr' = "NameError"
  /\ UNCHANGED <<pargs, snap, ploc,
               mapVars, trimVars, viewVars, centVars, kernVars, taskVars>>

\* x,y,z = set_view(pos,dens,*args,**kwargs)              (253)
DensitySetView ==
  /\ ppc = "set_view"
  /\ \E ord \in KeyOrders(Len(pargs.view.items)) :
       LET r == set_view(snap.pos, pargs.view, ord)
       IN  IF r.status = "ok"
             THEN /\ ploc' = [ploc EXCEPT !.x = r.x, !.y = r.y, !.z = r.z]
                  /\ ppc' = "sinks"
                  /\ perr' = perr
             ELSE /\ ploc' = ploc
                  /\ ppc' = "raised"
                  /\ perr' = r.status
  /\ UNCHANGED <<pargs, snap,
               mapVars, trimVars, viewVars, centVars, kernVars, taskVars>>

\* snapshot.sinks = []; for sink_id in snapshot.sink_ids: ...append(...)
\* and the density warning                                 (256-264)
DensitySinks ==
  /\ ppc = "sinks"
  /\ IF snap.sink_ids.has
       THEN /\ snap' = [snap EXCEPT !.sinks =
                          [q \in 1 .. Len(snap.sink_ids.ids) |->
                             LET id == snap.sink_ids.ids[q]
                             IN  <<ploc.x[id], ploc.y[id], ploc.z[id], ploc.mass[id]>>]]
            /\ ppc' = "trim_view"
            /\ perr' = perr
       ELSE /\ snap' = [snap EXCEPT !.sinks = << >>]
            /\ ppc' = "raised"
            /\ perr' = "AttributeError"
  /\ UNCHANGED <<pargs, ploc,
               mapVars, trimVars, viewVars, centVars, kernVars, taskVars>>

\* x,y,z,dens,smL,sinkval = trim_view(width, ..., depth=depth)   (266-270)
DensityTrimView ==
  /\ ppc = "trim_view"
  /\ LET r == trim_view(pargs.width,
                        [x |-> ploc.x, y |-> ploc.y, z |-> ploc.z,
                         arrs |-> <<ploc.dens, ploc.smL, ploc.sinkval>>],
                        pargs.depth)
     IN  IF r.status = "ok"
           THEN /\ ploc' = [ploc EXCEPT !.x = r.val.x, !.y = r.val.y, !.z = r.val.z,
                                        !.dens = r.val.arrs[1], !.smL = r.val.arrs[2],
                                        !.sinkval = r.val.arrs[3]]
                /\ ppc' = "build_grid"
                /\ perr' = perr
           ELSE /\ ploc' = ploc
                /\ ppc' = "raised"
                /\ perr' = r.status
  /\ UNCHANGED <<pargs, snap,
               mapVars, trimVars, viewVars, centVars, kernVars, taskVars>>

\* xi,yi = build_grid(width,pps)                           (272-273);
\* width/pps of line 208 with pps = 0 raises ZeroDivisionError
DensityBuildGrid ==
  /\ ppc = "build_grid"
  /\ IF pargs.pps = 0
       THEN /\ ploc' = ploc
            /\ ppc' = "raised"
            /\ perr' = "ZeroDivisionError"
       ELSE /\ ploc' = [ploc EXCEPT !.xi = build_grid(pargs.width, pargs.pps).xi,
                                    !.yi = build_grid(pargs.width, pargs.pps).yi]
            /\ ppc' = "fmax"
            /\ perr' = perr
  /\ UNCHANGED <<pargs, snap,
               mapVars, trimVars, viewVars, centVars, kernVars, taskVars>>

\* numpy.fmax(a, width / pps / 2.0); the widths of ProjWidthSet are whole
\* multiples of 2*pps
fmax(a, w, n) == IF 2 * n * a >= w THEN a ELSE w \div (2 * n)

\* hsml = numpy.fmax(sm * smL, width / pps / 2.0)          (274)
DensityClamp ==
  /\ ppc = "fmax"
  /\ ploc' = [ploc EXCEPT !.hsml =
                [k \in 1 .. Len(ploc.smL) |->
                   fmax(pargs.sm * ploc.smL[k], pargs.width, pargs.pps)]]
  /\ ppc' = "scalar_map"
  /\ UNCHANGED <<pargs, snap, perr,
               mapVars, trimVars, viewVars, centVars, kernVars, taskVars>>

\* zi = scalar_map(x,y,dens,hsml,width,pps,zshape); return xi,yi,zi
\* (277-279), scalar_map run by a team of one thread
DensityScalarMap ==
  /\ ppc = "scalar_map"
  /\ ploc' = [ploc EXCEPT !.zi =
                SerialMap([k \in 1 .. Len(ploc.x) |->
                             [x |-> ploc.x[k], y |-> ploc.y[k],
                              s |-> ploc.dens[k], h |-> ploc.hsml[k]]],
                          pargs.width, pargs.pps)]
  /\ ppc' = "returned"
  /\ UNCHANGED <<pargs, snap, perr,
               mapVars, trimVars, viewVars, centVars, kernVars, taskVars>>

NextProject ==
  \/ Load
  \/ ProjectCenterBox
  \/ DensitySetView
  \/ DensitySinks
  \/ DensityTrimView
  \/ DensityBuildGrid
  \/ DensityClamp
  \/ DensityScalarMap

\* ============================================ center_box, find_center
MaxCent == 2          \* rows of pos
MaxNpart == 2         \* centering_npart

\* A coordinate is the fraction num/den; den = 0 is nan.
Frac(a, b) == [num |-> a, den |-> b]
\* a - c of two such numbers
FracSub(a, c) == Frac(a.num * c.den - c.num * a.den, a.den * c.den)
SameFrac(a, b) ==
  IF a.den = 0 \/ b.den = 0 THEN a.den = 0 /\ b.den = 0
  ELSE a.num * b.den = b.num * a.den

CentPoint == {<<0, 0, 0>>, <<2, 4, -2>>}
\* Densities and dens_limit are whole multiples of the smallest positive
\* float; dens_limit starts at a power of two, so that halving it is exact
\* down to one unit and gives 0.0 from there.
CentDensSet == {-1, 0, 1, 4}
DensLimitSet == {4}
CenteringSet == {"none", "box", "max", "avg", "mid"}
NoCenter == << >>
CenterSet == {NoCenter, <<1, 1, 1>>}
NoDens == << >>

InitCenter ==
  /\ \E len \in 1 .. MaxCent, cg \in CenteringSet, ce \in CenterSet,
        np \in 1 .. MaxNpart, given \in BOOLEAN, dl \in DensLimitSet :
       \E p \in [1 .. len -> CentPoint], dn \in [1 .. len -> CentDensSet] :
         /\ cargs = [pos |-> p, center |-> ce, centering |-> cg,
                     density |-> IF given THEN dn ELSE NoDens,
                     dens_limit |-> dl, centering_npart |-> np]
         /\ cpos = [k \in 1 .. len |-> [a \in 1 .. 3 |-> Frac(p[k][a], 1)]]
  /\ dens_limit = 0
  /\ cpc = "call"

\* x.max(), x.min() of column a of pos
ColMax(p, a) == CHOOSE m \in {p[k][a] : k \in 1 .. Len(p)} :
                  \A k \in 1 .. Len(p) : p[k][a] <= m
ColMin(p, a) == CHOOSE m \in {p[k][a] : k \in 1 .. Len(p)} :
                  \A k \in 1 .. Len(p) : p[k][a] >= m
\* dens.argmax(): the first index of the largest element
ArgMax(d) == CHOOSE m \in 1 .. Len(d) :
               /\ \A k \in 1 .. Len(d) : d[k] <= d[m]
               /\ \A k \in 1 .. m - 1 : d[k] < d[m]

\* numpy.where(dens >= dens_limit)[0]
HiDens(d, lim) == SelectSeq([k \in 1 .. Len(d) |-> k], LAMBDA k : d[k] >= lim)

RECURSIVE SumSeq(_)
SumSeq(s) == IF s = << >> THEN 0 ELSE Head(s) + SumSeq(Tail(s))

\* reject_outliers(data): data[abs(data - mean) < 2 * std], the comparison
\* squared and multiplied by Len(data)^2
reject_outliers(data) ==
  LET n == Len(data)
      S == SumSeq(data)
      Q == SumSeq([k \in 1 .. n |-> data[k] * data[k]])
  IN  SelectSeq(data, LAMBDA d : (n * d - S) * (n * d - S) < 4 * (n * Q - S * S))

\* numpy.average(a): nan for an empty array
average(a) == Frac(SumSeq(a), Len(a))

\* find_center for every centering but 'avg' (32-45): the centre, or the
\* exception raised
find_center(p, d, centering) ==
  IF centering = "max"
    THEN IF d = NoDens THEN [status |-> "KeyError", c |-> << >>]
         ELSE [status |-> "ok", c |-> [a \in 1 .. 3 |-> Frac(p[ArgMax(d)][a], 1)]]
  ELSE IF centering = "box"
    THEN [status |-> "ok",
          c |-> [a \in 1 .. 3 |-> Frac(ColMax(p, a) + ColMin(p, a), 2)]]
  ELSE [status |-> "KeyError", c |-> << >>]

\* x -= cx; y -= cy; z -= cz: x, y, z are views of pos       (64-66)
SubtractInPlace(p, c) ==
  [k \in 1 .. Len(p) |-> [a \in 1 .. 3 |-> FracSub(p[k][a], c[a])]]

\* center given, or centering 'avg' chosen with a density
ForAvg == cargs.center = NoCenter /\ cargs.centering = "avg" /\ cargs.density # NoDens

\* center_box(pos, center, density=..., centering=...) on every path but the
\* loop of 'avg'                                             (47-67)
CenterBox ==
  /\ cpc = "call"
  /\ ~ForAvg
  /\ LET r == IF cargs.center # NoCenter
                THEN [status |-> "ok",
                      c |-> [a \in 1 .. 3 |-> Frac(cargs.center[a], 1)]]
              ELSE IF cargs.centering = "avg"
                THEN [status |-> "KeyError", c |-> << >>]
              ELSE IF cargs.centering # "none"
                THEN find_center(cargs.pos, cargs.density, cargs.centering)
              ELSE find_center(cargs.pos, NoDens, "box")
     IN  IF r.status = "ok"
           THEN cpos' = SubtractInPlace(cpos, r.c) /\ cpc' = "returned"
           ELSE cpos' = cpos /\ cpc' = "raised"
  /\ UNCHANGED <<cargs, dens_limit,
               mapVars, trimVars, viewVars, projVars, kernVars, taskVars>>

\* dens_limit = kwargs.pop('dens_limit', 1e11); hidens = ...    (16-19)
FindCenterAvg ==
  /\ cpc = "call"
  /\ ForAvg
  /\ dens_limit' = cargs.dens_limit
  /\ cpc' = "while"
  /\ UNCHANGED <<cargs, cpos,
               mapVars, trimVars, viewVars, projVars, kernVars, taskVars>>

\* while hidens.size < nparticles
LoopTest == Len(HiDens(cargs.density, dens_limit)) < cargs.centering_npart

\* dens_limit /= 2; hidens = numpy.where(dens >= dens_limit)[0]  (20-22)
Halve ==
  /\ cpc = "while"
  /\ LoopTest
  /\ dens_limit' = dens_limit \div 2
  /\ UNCHANGED <<cargs, cpos, cpc,
               mapVars, trimVars, viewVars, projVars, kernVars, taskVars>>

\* the loop is left: the averages of lines 28-30, then lines 64-67
Average ==
  /\ cpc = "while"
  /\ ~LoopTest
  /\ LET hidens == HiDens(cargs.density, dens_limit)
         c == [a \in 1 .. 3 |->
                 average(reject_outliers([k \in 1 .. Len(hidens) |->
                                            cargs.pos[hidens[k]][a]]))]
     IN  cpos' = SubtractInPlace(cpos, c)
  /\ cpc' = "returned"
  /\ UNCHANGED <<cargs, dens_limit,
               mapVars, trimVars, viewVars, projVars, kernVars, taskVars>>

NextCenter == CenterBox \/ FindCenterAvg \/ Halve \/ Average

\* ============================================================ the kernel
\* r2 is a whole number of units 1/R2One: r2 = 1.0 is R2One
R2One == KernelDen * KernelDen

InitKernel ==
  /\ \E a \in 0 .. R2One, b \in 0 .. R2One : kargs = [a |-> a, b |-> b]
  /\ kret = [a |-> 0, b |-> 0]
  /\ kpc = "r2"

\* r = sqrt(r2); if(r <= 0.5) W_x = ...; else W_x = ...  (62-66 / 127-131),
\* for the two radii of kargs
KernelEval ==
  /\ kpc = "r2"
  /\ kret' = [a |-> W_x(SqrtR2(kargs.a, R2One)), b |-> W_x(SqrtR2(kargs.b, R2One))]
  /\ kpc' = "done"
  /\ UNCHANGED <<kargs, mapVars, trimVars, viewVars, projVars, centVars, taskVars>>

NextKernel == KernelEval

\* ============================================== multitask and its Loader
MaxFiles == 3         \* snapshot files of one run of multitask
QueueSize == 3        \* Queue.Queue(3)

\* what load_function does with a file: it returns the snapshot, raises
\* IOError, or raises another exception
Outcomes == {"snapshot", "IOError", "Exception"}
NoneItem == [id |-> 0, does |-> "None"]

InitTask ==
  /\ \E len \in 0 .. MaxFiles : \E o \in [1 .. len -> Outcomes] :
       names = [k \in 1 .. len |-> [id |-> k, does |-> o[k]]]
  /\ file_queue = << >>
  /\ data_queue = << >>
  /\ lpc = "get"
  /\ lreg = NoneItem
  /\ qpc = "put"
  /\ plotted = << >>

\* file_queue.put((fname,length_unit))                  (density_vis 65-67)
PutFile ==
  /\ qpc = "put"
  /\ names # << >>
  /\ file_queue' = Append(file_queue, Head(names))
  /\ names' = Tail(names)
  /\ UNCHANGED <<data_queue, lpc, lreg, qpc, plotted,
               mapVars, trimVars, viewVars, projVars, centVars, kernVars>>

\* file_queue.put(None)                                 (density_vis 68)
PutNone ==
  /\ qpc = "put"
  /\ names = << >>
  /\ file_queue' = Append(file_queue, NoneItem)
  /\ qpc' = "get"
  /\ UNCHANGED <<names, data_queue, lpc, lreg, plotted,
               mapVars, trimVars, viewVars, projVars, centVars, kernVars>>

\* snapshot = data_queue.get(); plot_dens(snapshot, ...)  (density_vis 71-75)
GetSnapshot ==
  /\ qpc = "get"
  /\ data_queue # << >>
  /\ Head(data_queue) # NoneItem
  /\ plotted' = Append(plotted, Head(data_queue).id)
  /\ data_queue' = Tail(data_queue)
  /\ UNCHANGED <<names, file_queue, lpc, lreg, qpc,
               mapVars, trimVars, viewVars, projVars, centVars, kernVars>>

\* snapshot is None: break; job_server.destroy()        (density_vis 71-77)
GetNone ==
  /\ qpc = "get"
  /\ data_queue # << >>
  /\ Head(data_queue) = NoneItem
  /\ data_queue' = Tail(data_queue)
  /\ qpc' = "done"
  /\ UNCHANGED <<names, file_queue, lpc, lreg, plotted,
               mapVars, trimVars, viewVars, projVars, centVars, kernVars>>

\* args = self.file_queue.get(); if args is None: ...   (snapshot 55-62)
LoaderGet ==
  /\ lpc = "get"
  /\ file_queue # << >>
  /\ lreg' = Head(file_queue)
  /\ file_queue' = Tail(file_queue)
  /\ lpc' = IF Head(file_queue) = NoneItem THEN "put_none" ELSE "load"
  /\ UNCHANGED <<names, data_queue, qpc, plotted,
               mapVars, trimVars, viewVars, projVars, centVars, kernVars>>

\* self.data_queue.put(None); break                     (snapshot 57-58)
LoaderPutNone ==
  /\ lpc = "put_none"
  /\ Len(data_queue) < QueueSize
  /\ data_queue' = Append(data_queue, NoneItem)
  /\ lpc' = "finished"
  /\ UNCHANGED <<names, file_queue, lreg, qpc, plotted,
               mapVars, trimVars, viewVars, projVars, centVars, kernVars>>

\* snapshot = self.load_function(*args) under try / except IOError
\* (snapshot 63-70); any other exception leaves run
LoaderLoad ==
  /\ lpc = "load"
  /\ lpc' = CASE lreg.does = "snapshot" -> "put"
              [] lreg.does = "IOError" -> "get"
              [] OTHER -> "died"
  /\ UNCHANGED <<names, file_queue, data_queue, lreg, qpc, plotted,
               mapVars, trimVars, viewVars, projVars, centVars, kernVars>>

\* self.data_queue.put(snapshot)                        (snapshot 65)
LoaderPut ==
  /\ lpc = "put"
  /\ Len(data_queue) < QueueSize
  /\ data_queue' = Append(data_queue, lreg)
  /\ lpc' = "get"
  /\ UNCHANGED <<names, file_queue, lreg, qpc, plotted,
               mapVars, trimVars, viewVars, projVars, centVars, kernVars>>

NextTask ==
  \/ PutFile
  \/ PutNone
  \/ GetSnapshot
  \/ GetNone
  \/ LoaderGet
  \/ LoaderPutNone
  \/ LoaderLoad
  \/ LoaderPut

\* ========================================================= specifications
MapOff ==
  /\ width = 0 /\ pps = 0 /\ parts = << >> /\ nthreads = 0 /\ owner = << >>
  /\ zi = << >> /\ nzi = << >> /\ th = << >> /\ mpc = "off" /\ out = << >>
TrimOff ==
  /\ targs = << >> /\ tpc = "off" /\ tret = << >> /\ grid = << >>
ViewOff ==
  /\ vargs = << >> /\ vpc = "off" /\ vret = << >>
ProjectOff ==
  /\ pargs = << >> /\ snap = << >> /\ ploc = << >> /\ ppc = "off" /\ perr = "none"
CenterOff ==
  /\ cargs = << >> /\ cpos = << >> /\ dens_limit = 0 /\ cpc = "off"
KernelOff ==
  /\ kargs = << >> /\ kret = << >> /\ kpc = "off"
TaskOff ==
  /\ names = << >> /\ file_queue = << >> /\ data_queue = << >>
  /\ lpc = "off" /\ lreg = << >> /\ qpc = "off" /\ plotted = << >>
RestOff == ProjectOff /\ CenterOff /\ KernelOff /\ TaskOff

\* scalar_map
Init == InitMap /\ TrimOff /\ ViewOff /\ RestOff
Next == NextMap
Spec == Init /\ [][Next]_vars

\* trim_view then build_grid, as project and density_projection call them
InitT == MapOff /\ InitTrim /\ ViewOff /\ RestOff
SpecTrim == InitT /\ [][NextTrim]_vars

\* set_view
InitV == MapOff /\ TrimOff /\ InitView /\ RestOff

\* project and density_projection
InitP == MapOff /\ TrimOff /\ ViewOff /\ InitProject /\ CenterOff /\ KernelOff /\ TaskOff
SpecProject == InitP /\ [][NextProject]_vars

\* center_box and the find_center it calls
InitC == MapOff /\ TrimOff /\ ViewOff /\ ProjectOff /\ InitCenter /\ KernelOff /\ TaskOff
SpecCenter == InitC /\ [][NextCenter]_vars

\* the kernel W_x
InitK == MapOff /\ TrimOff /\ ViewOff /\ ProjectOff /\ CenterOff /\ InitKernel /\ TaskOff
SpecKernel == InitK /\ [][NextKernel]_vars

\* multitask and the Loader thread it starts
InitQ == MapOff /\ TrimOff /\ ViewOff /\ ProjectOff /\ CenterOff /\ KernelOff /\ InitTask
SpecTask == InitQ /\ [][NextTask]_vars
SpecView == InitV /\ [][NextView]_vars

\* ===================================================== scalar_map: claims
Returned == mpc = "returned"

\* Two returned cells hold the same number (nan and inf equal only themselves)
SameValue(a, b) ==
  IF a.den = 0 \/ b.den = 0 THEN a = b ELSE a.num * b.den = b.num * a.den

\* some particle has the centre of cell c within its radius (r <= 1)
Covered(c) ==
  \E k \in 1 .. Len(parts) : InKernel(parts[k], c[1], c[2], width, pps)

\* C1 (as claimed): the grid a team of K threads returns is the grid one thread
\* returns, whatever the interleaving and the assignment of iterations.
ParallelismInvariance ==
  Returned => \A c \in Cells(pps) :
                SameValue(out[c], SerialMap(parts, width, pps)[c])

\* C2: in the returned grid (of scalar_map under every interleaving, and of
\* py_scalar_map) a cell no particle reaches is exactly 0, no cell is the
\* result of a division by a weight sum that is not > 0, and in a run of one
\* thread every cell whose weight sum is 0 is exactly 0.
ZeroWeightGuard ==
  Returned =>
    \A c \in Cells(pps) :
      /\ out[c].den > 0
      /\ out[c].den # 1 => (nzi[c] > 0 /\ out[c] = Quot(zi[c], nzi[c]))
      /\ ~Covered(c) => out[c] = Quot(0, 1)
      /\ (nthreads = 1 /\ nzi[c] = 0) => out[c] = Quot(0, 1)
      /\ py_scalar_map(parts, width, pps)[c].den > 0
      /\ ~Covered(c) => py_scalar_map(parts, width, pps)[c] = Quot(0, 1)

\* C2 witness: two threads have returned a grid with a cell no particle
\* reaches next to a cell that was divided by its weight sum.
ZeroWeightGuardWitness ==
  /\ Returned
  /\ nthreads = 2
  /\ \E c \in Cells(pps) : ~Covered(c) /\ out[c] = Quot(0, 1)
  /\ \E c \in Cells(pps) : nzi[c] > 1 /\ out[c].den = nzi[c]

\* C3 (as claimed): when all particles share the scalar value, every cell with
\* a particle at r <= 1 holds exactly that value.
ConstantFieldInvariance ==
  (Returned /\ \A k, l \in 1 .. Len(parts) : parts[k].s = parts[l].s) =>
    \A c \in Cells(pps) :
      Covered(c) => \A k \in 1 .. Len(parts) :
                      SameValue(out[c], Quot(parts[k].s, 1))

\* the cells the scan of particle p adds to
DepositSet(p) == {Deposits(p, width, pps)[q] : q \in 1 .. Len(Deposits(p, width, pps))}

\* the sum over the particles with cell c within their radius of Add(p, c, ...)
KernelSumZi(c) ==
  SumSeq([k \in 1 .. Len(parts) |->
            IF InKernel(parts[k], c[1], c[2], width, pps)
              THEN AddZi(parts[k], c, width, pps) ELSE 0])
KernelSumNzi(c) ==
  SumSeq([k \in 1 .. Len(parts) |->
            IF InKernel(parts[k], c[1], c[2], width, pps)
              THEN AddNzi(parts[k], c, width, pps) ELSE 0])

\* C15: in a run of one thread the scan of every particle adds to exactly
\* the cells of the grid whose centre is within its radius, once each (the
\* truncated index range skips none of them), so that the value sum and the
\* weight sum of a cell are the sums of scalar^3*W and scalar^2*W over those
\* particles, and the returned cell is their ratio.
SerialDepositsExact ==
  (Returned /\ nthreads = 1) =>
    /\ \A k \in 1 .. Len(parts) :
         /\ DepositSet(parts[k]) =
              {c \in Cells(pps) : InKernel(parts[k], c[1], c[2], width, pps)}
         /\ Len(Deposits(parts[k], width, pps)) = Cardinality(DepositSet(parts[k]))
    /\ \A c \in Cells(pps) :
         /\ zi[c] = KernelSumZi(c)
         /\ nzi[c] = KernelSumNzi(c)
         /\ out[c] = Where(KernelSumZi(c), KernelSumNzi(c))

\* the real bound (x - h + width/2)/width*pps of particle p is not whole
TruncatedMin(p) == ((2 * (p.x - p.h) + width) * pps) % (2 * width) # 0

\* C15 witness: one thread has returned from two particles; a cell has sums
\* of both, another cell has none, and a particle whose lower bound is
\* negative and was truncated to 0 has added a weight > 0 to column 0.
SerialDepositsWitness ==
  /\ Returned /\ nthreads = 1 /\ Len(parts) = 2
  /\ \E c \in Cells(pps) : c \in DepositSet(parts[1]) /\ c \in DepositSet(parts[2])
                              /\ nzi[c] > 0
  /\ \E c \in Cells(pps) : ~Covered(c) /\ zi[c] = 0
  /\ \E k \in 1 .. 2 : /\ TruncatedMin(parts[k])
                         /\ 2 * (parts[k].x - parts[k].h) + width < 0
                         /\ \E c \in DepositSet(parts[k]) :
                              c[1] = 0 /\ KernelAt(parts[k], c[1], c[2], width, pps) > 0

\* the bounding box of p lies outside the grid [-width/2, width/2)^2
BoxOutside(p) ==
  \/ 2 * (p.x - p.h) >= width \/ 2 * (p.x + p.h) < -width
  \/ 2 * (p.y - p.h) >= width \/ 2 * (p.y + p.h) < -width

\* C16: with pps >= 1 every cell a thread reads or writes in zi and nzi, and
\* every cell a scan adds to, has both indices in 0 .. pps-1; the scan of a
\* particle whose bounding box lies outside the grid adds to no cell; and no
\* scan makes more than pps passes over i, or over j for one i.
IndexSafety ==
  /\ pps >= 1
  /\ DOMAIN zi = Cells(pps) /\ DOMAIN nzi = Cells(pps)
  /\ \A t \in Threads : \A q \in 1 .. Len(th[t].cells) : th[t].cells[q] \in Cells(pps)
  /\ Returned =>
       \A k \in 1 .. Len(parts) :
         /\ DepositSet(parts[k]) \subseteq Cells(pps)
         /\ BoxOutside(parts[k]) => Deposits(parts[k], width, pps) = << >>
         /\ OuterPasses(parts[k], 0, width, pps) \in 1 .. pps
         /\ InnerPasses(parts[k], 0, width, pps) \in 1 .. pps

\* C16 witness: the team has returned; one particle's box lay outside the
\* grid, another's index range ended beyond the last column and its scan
\* stopped at pps passes, having added to a cell.
IndexSafetyWitness ==
  /\ Returned
  /\ \E k \in 1 .. Len(parts) : BoxOutside(parts[k])
  /\ \E k \in 1 .. Len(parts) :
       /\ i_max(parts[k], width, pps) >= pps
       /\ OuterPasses(parts[k], 0, width, pps) = pps
       /\ Deposits(parts[k], width, pps) # << >>

\* C17 (as claimed): py_scalar_map returns the grid scalar_map returns when
\* run by one thread.
PyAgreesWithSerial ==
  (Returned /\ nthreads = 1) =>
    \A c \in Cells(pps) : SameValue(out[c], py_scalar_map(parts, width, pps)[c])

\* ========================================== trim_view, build_grid: claims
TrimDone == tpc # "trim_view"
TrimOk == TrimDone /\ tret.status = "ok"

\* input particle k lies in the window: |x| < width/2 and |y| < width/2
InWindow(k) ==
  2 * Abs(targs.x[k]) < targs.width /\ 2 * Abs(targs.y[k]) < targs.width

\* the indices of the input particles in the window, ascending
WindowIndices ==
  SelectSeq([k \in 1 .. Len(targs.x) |-> k], LAMBDA k : InWindow(k))

\* C4 (as claimed): with a depth given, every returned particle has
\* |z| < depth/2, |x| < width/2 and |y| < width/2.
TrimDepthPhysical ==
  (TrimOk /\ ~targs.depth.none) =>
    \A k \in 1 .. Len(tret.val.x) :
      /\ 2 * targs.depth.den * Abs(tret.val.z[k]) < targs.depth.num
      /\ 2 * Abs(tret.val.x[k]) < targs.width
      /\ 2 * Abs(tret.val.y[k]) < targs.width

\* C4 (amended): with a depth other than 0 given, every returned particle has
\* |z| < depth*width/2, |x| < width/2 and |y| < width/2; with depth 0 no
\* particle of the window is dropped for its z.
TrimDepthFraction ==
  (TrimOk /\ ~targs.depth.none) =>
    /\ \A k \in 1 .. Len(tret.val.x) :
         /\ targs.depth.num # 0 =>
              2 * targs.depth.den * Abs(tret.val.z[k])
                < targs.depth.num * targs.width
         /\ 2 * Abs(tret.val.x[k]) < targs.width
         /\ 2 * Abs(tret.val.y[k]) < targs.width
    /\ targs.depth.num = 0 => tret.val.z = Take(targs.z, WindowIndices)

\* C4 witness: trim_view returned, for a depth of 1/2, one particle of two that
\* were both in the window, the other having |z| >= depth*width/2.
TrimDepthWitness ==
  /\ TrimOk
  /\ targs.depth = Num(1, 2)
  /\ Len(WindowIndices) = 2
  /\ Len(tret.val.x) = 1

\* C5: without depth, when a particle is in the window, trim_view returns, and
\* returns x, y, z and every auxiliary array cut to the particles of the
\* window, in their order, all by the same indices.
TrimWindowAligned ==
  (TrimDone /\ targs.depth.none /\ WindowIndices # << >>) =>
    /\ tret.status = "ok"
    /\ tret.val.x = Take(targs.x, WindowIndices)
    /\ tret.val.y = Take(targs.y, WindowIndices)
    /\ tret.val.z = Take(targs.z, WindowIndices)
    /\ Len(tret.val.arrs) = Len(targs.arrs)
    /\ \A i \in 1 .. Len(targs.arrs) :
         tret.val.arrs[i] = Take(targs.arrs[i], WindowIndices)

\* C5 witness: of two particles the first was dropped, and both auxiliary
\* arrays returned hold the element of the second.
TrimWindowWitness ==
  /\ TrimOk
  /\ targs.depth.none
  /\ Len(targs.x) = 2
  /\ WindowIndices = <<2>>
  /\ Len(tret.val.arrs) = 2
  /\ tret.val.arrs[1] = <<12>> /\ tret.val.arrs[2] = <<22>>

\* C6 (as claimed): when no particle is in the window, trim_view returns
\* empty sequences for x, y, z and every auxiliary array, and raises nothing.
TrimEmptyReturns ==
  (TrimDone /\ WindowIndices = << >>) =>
    /\ tret.status = "ok"
    /\ tret.val.x = << >> /\ tret.val.y = << >> /\ tret.val.z = << >>
    /\ \A i \in 1 .. Len(targs.arrs) : tret.val.arrs[i] = << >>

\* C7 (as claimed): build_grid returns pps x pps arrays with
\* (xi[i][j], yi[i][j]) the centre (center_i, center_j) scalar_map uses for
\* zi[i][j]; neighbouring centres are width/pps apart.
GridHoldsCentres ==
  tpc = "scalar_map" =>
    /\ DOMAIN grid.xi = Cells(targs.pps)
    /\ DOMAIN grid.yi = Cells(targs.pps)
    /\ \A c \in Cells(targs.pps) :
         /\ grid.xi[c] = Center2p(c[1], targs.width, targs.pps)
         /\ grid.yi[c] = Center2p(c[2], targs.width, targs.pps)

\* ======================================================= set_view: claims
ViewDone == vpc # "set_view"
Col(coords, j) == [n \in 1 .. Len(coords) |-> coords[n][j]]
Neg(q) == [n \in 1 .. Len(q) |-> -q[n]]
UpToSign(q, r) == q = r \/ q = Neg(r)

\* C8: for 'xy' set_view returns the columns x, y, z of pos; for 'xz' the
\* third sequence is column y and the first two are columns x and z up to
\* sign; for 'yz' the third is column x and the first two are columns y and
\* z up to sign, in some order.
FixedSelectorDepthAxis ==
  (ViewDone /\ vargs.view.kind = "str"
     /\ vargs.view.name \in {"xy", "xz", "yz"}) =>
    /\ vret.status = "ok"
    /\ vargs.view.name = "xy" =>
         /\ vret.x = Col(vargs.pos, 1)
         /\ vret.y = Col(vargs.pos, 2)
         /\ vret.z = Col(vargs.pos, 3)
    /\ vargs.view.name = "xz" =>
         /\ vret.z = Col(vargs.pos, 2)
         /\ UpToSign(vret.x, Col(vargs.pos, 1))
         /\ UpToSign(vret.y, Col(vargs.pos, 3))
    /\ vargs.view.name = "yz" =>
         /\ vret.z = Col(vargs.pos, 1)
         /\ \/ UpToSign(vret.x, Col(vargs.pos, 2)) /\ UpToSign(vret.y, Col(vargs.pos, 3))
            \/ UpToSign(vret.x, Col(vargs.pos, 3)) /\ UpToSign(vret.y, Col(vargs.pos, 2))

\* C8 witness: set_view returned for 'yz' on two rows, the first (1, 2, 3).
FixedSelectorWitness ==
  /\ vpc = "returned"
  /\ vargs.view = StrView("yz")
  /\ Len(vargs.pos) = 2
  /\ vargs.pos[1] = <<1, 2, 3>>
  /\ vret.z = <<1, vargs.pos[2][1]>>

\* C9 (as claimed): for a dictionary, set_view returns the rotations applied
\* in the order in which the caller wrote the pairs.
RotationsInGivenOrder ==
  (vpc = "returned" /\ vargs.view.kind = "dict") =>
    vret = RotateEach(vargs.pos, vargs.view.items)

\* a fixed selector, or a mapping from the axis names 'x', 'y', 'z'
Recognized(view) ==
  \/ view.kind = "str" /\ view.name \in {"xy", "xz", "yz"}
  \/ view.kind = "dict"
       /\ \A k \in 1 .. Len(view.items) : view.items[k][1] \in {"x", "y", "z"}

\* C10 (as claimed): every view that is neither a fixed selector nor a mapping
\* from 'x', 'y', 'z' to angles ends set_view in the KeyError with the usage
\* message.
UnrecognizedViewKeyError ==
  (ViewDone /\ ~Recognized(vargs.view)) => vret.status = "KeyError"

\* ============================= project, density_projection: claims
\* the call has done nothing but read its arguments and the snapshot
NothingProcessed ==
  /\ ploc.x = << >> /\ ploc.hsml = << >> /\ ploc.xi = << >> /\ ploc.zi = << >>
  /\ snap.sinks = << >>

\* C11 (as claimed): a call given pps < 1 or width <= 0 ends in the
\* configuration error before anything is processed: once it has left its
\* first statements it has raised that error, and no rotation, sink
\* bookkeeping, trimming or grid has been computed.
ConfigurationErrorFirst ==
  (pargs.pps < 1 \/ pargs.width <= 0) =>
    \/ ppc \in {"call", "center_box", "set_view"}
    \/ ppc = "raised" /\ perr = "ConfigurationError" /\ NothingProcessed

\* a recognized view, width > 0, pps >= 1, a particle in the window
ValidCall ==
  /\ Recognized(pargs.view)
  /\ pargs.width > 0
  /\ pargs.pps >= 1
  /\ \E k \in 1 .. Len(snap.pos) : \A a \in 1 .. 3 : snap.pos[k][a] = 0

\* C13 (as claimed): on valid input project does not end in an error: once
\* it has ended it has returned, with the grids xi, yi and zi computed.
ProjectReturnsGrids ==
  (pargs.fn = "project" /\ ValidCall /\ ppc \in {"raised", "returned"}) =>
    /\ ppc = "returned"
    /\ DOMAIN ploc.xi = Cells(pargs.pps)
    /\ DOMAIN ploc.zi = Cells(pargs.pps)

KernelOne == KernelDen * KernelDen * KernelDen

\* C14: the kernel is 1 at r = 0 and 0 at r = 1, both branch formulas give
\* 0.25 at r = 0.5, and of two radii in [0, 1] the larger never has the
\* larger kernel value; no value is negative.
KernelShape ==
  kpc = "done" =>
    LET ra == SqrtR2(kargs.a, R2One)
    IN  /\ kargs.a = 0 => kret.a = KernelOne
        /\ kargs.a = R2One => kret.a = 0
        /\ ra = KernelHalf =>
              /\ 4 * BranchNear(ra) = KernelOne
              /\ 4 * BranchFar(ra) = KernelOne
              /\ 4 * kret.a = KernelOne
        /\ kargs.a <= kargs.b => kret.a >= kret.b
        /\ kret.a >= 0 /\ kret.a <= KernelOne

\* C14 witness: the kernel evaluated at r = 0.5 and at a radius of the far
\* branch, where it is smaller but not yet 0.
KernelShapeWitness ==
  /\ kpc = "done"
  /\ SqrtR2(kargs.a, R2One) = KernelHalf
  /\ 2 * SqrtR2(kargs.b, R2One) > KernelDen
  /\ kret.b > 0
  /\ kret.b < kret.a

\* C19 (as claimed): the loop of find_center for 'avg' always exits: no pass
\* of it, entered because fewer than centering_npart particles have a density
\* >= dens_limit, leaves dens_limit and with it the test as they were.
AvgLoopExits ==
  (cpc = "while" /\ LoopTest) => dens_limit \div 2 # dens_limit

\* ================================================== multitask: claims
\* C18 (as claimed): whatever load_function does with each file, the main
\* thread is never left waiting for good: as long as it has not received
\* None and finished, some thread can take a step.
ConsumerNeverBlocked ==
  qpc = "done" \/ ENABLED NextTask

====
